---- MODULE Spec2Model ----
(***************************************************************************)
(* Model of the intracellular (icephys) metadata path of                   *)
(* nwb-conversion-tools:                                                   *)
(*   AbfNeoDataInterface.get_metadata  (abf_neo_datainterface.py)          *)
(*   get_number_of_electrodes / get_number_of_segments  (utils/neo.py)     *)
(* One interface instance is constructed over an ordered list of ABF       *)
(* files and an optional JSON side file; get_metadata may be called on it  *)
(* any number of times.                                                    *)
(***************************************************************************)
EXTENDS Integers, Sequences, FiniteSets, TLC

\* ------------------------------------------------------------------ bounds

\* Largest number of files handed to one interface (files_paths).
MaxFiles == 2

\* Largest number of get_metadata invocations on the interface.
MaxCalls == 2

\* ------------------------------------------------------- python primitives

\* dict.get(key, default)
Get(d, key, default) == IF key \in DOMAIN d THEN d[key] ELSE default

\* Python's None, where it is stored in a field that otherwise holds a string.
None == "None"

\* round(ms / 1000): Python 3 rounds an exact half to the even neighbour.
RoundMS(ms) ==
    LET q == ms \div 1000
        r == ms % 1000
    IN  IF r < 500 THEN q
        ELSE IF r > 500 THEN q + 1
        ELSE IF q % 2 = 0 THEN q ELSE q + 1

IsLeap(y) == (y % 4 = 0) /\ ((y % 100 # 0) \/ (y % 400 = 0))

\* Days in the months before month m of year y.
DaysBeforeMonth(y, m) ==
    LET cum == <<0, 31, 59, 90, 120, 151, 181, 212, 243, 273, 304, 334>>
    IN  cum[m] + (IF m > 2 /\ IsLeap(y) THEN 1 ELSE 0)

\* Days before January 1st of year y (proleptic Gregorian calendar).
DaysBeforeYear(y) ==
    LET p == y - 1 IN p * 365 + (p \div 4) - (p \div 100) + (p \div 400)

\* datetime.strptime(str(n), "%Y%m%d") as a day ordinal: the eight digits of
\* n are read as four of year, two of month, two of day.
ParseDate(n) ==
    LET y == n \div 10000
        m == (n \div 100) % 100
        d == n % 100
    IN  DaysBeforeYear(y) + DaysBeforeMonth(y, m) + d

\* timedelta(seconds=startTime): a timedelta is normalised to days and
\* 0 <= seconds < 86400 (no microseconds arise here).
Timedelta(days, seconds) ==
    [days |-> days + (seconds \div 86400), seconds |-> seconds % 86400]

\* startDate + startTime, with startDate = strptime(str(uFileStartDate)) at
\* midnight and startTime = timedelta(seconds=round(uFileStartTimeMS / 1000)):
\* a datetime, held as its day ordinal and the second of that day.
AbfDateTime(axon_info) ==
    LET startDate == ParseDate(axon_info.uFileStartDate)
        startTime == Timedelta(0, RoundMS(axon_info.uFileStartTimeMS))
    IN  [day |-> startDate + startTime.days, second |-> startTime.seconds]

\* a - b of two datetimes: a timedelta.
DatetimeSub(a, b) == Timedelta(a.day - b.day, a.second - b.second)

\* float(td.seconds): the seconds field of the timedelta alone (its days are
\* a separate field), as a whole number.
TimedeltaSeconds(td) == td.seconds

\* reader.filename.split("/")[-1]: a path is held as the sequence of its
\* "/"-separated components.
AbfFileName_first(filename) == filename[1]
AbfFileName(filename) == filename[Len(filename)]

\* ----------------------------------------------------------------- inputs

Channels(n) == [k \in 1..n |-> k - 1]

AbfFile(path, date, ms, nseg, nchan) ==
    [ filename   |-> path,
      _axon_info |-> [uFileStartDate |-> date, uFileStartTimeMS |-> ms],
      header     |-> [nb_segment |-> <<nseg>>, signal_channels |-> Channels(nchan)] ]

\* The ABF recordings a caller can pass: every shape of 0..2 segments by
\* 0..2 channels, start times on three calendar days (a leap day among them),
\* two files sharing a base name in different directories.
AbfFiles ==
    { AbfFile(<<"data", "cell1.abf">>, 20200229, 36000500, 2, 2),
      AbfFile(<<"data", "cell2.abf">>, 20200301, 35999500, 1, 2),
      AbfFile(<<"cell3.abf">>,         20200229,     1500, 2, 1),
      AbfFile(<<"data", "cell4.abf">>, 20200229, 36100000, 1, 1),
      AbfFile(<<"old", "cell1.abf">>,  20191231, 86399499, 2, 0),
      AbfFile(<<"data", "cell6.abf">>, 20200301,     2500, 0, 2),
      AbfFile(<<"cell7.abf">>,         20200229, 36000500, 0, 0),
      AbfFile(<<"data", "cell8.abf">>, 20200302, 36000500, 0, 1),
      AbfFile(<<"cell9.abf">>,         20200228, 86399000, 1, 0) }

\* Contents of the JSON side files that exist on disk.
JsonFiles ==
    ( "subject.json" :> [subject_id |-> "mouse1", species |-> "Mus musculus"] )
 @@ ( "sessions.json" :>
        [ recording_sessions |->
            << [abf_file_name |-> "cell1.abf", stimulus_type |-> "long square",
                icephys_experiment_type |-> "voltage_clamp"],
               [abf_file_name |-> "cell2.abf", stimulus_type |-> "ramp"],
               [abf_file_name |-> "cell1.abf", stimulus_type |-> "short square",
                icephys_experiment_type |-> "current_clamp"],
               [abf_file_name |-> "cell4.abf",
                icephys_experiment_type |-> "izero"] >> ] )
 @@ ( "partial.json" :>
        [ recording_sessions |->
            << [stimulus_type |-> "noise"],
               [abf_file_name |-> "data/cell2.abf", stimulus_type |-> "chirp"],
               [abf_file_name |-> "cell3.abf", stimulus_type |-> "ramp",
                icephys_experiment_type |-> "current_clamp"] >> ] )

\* Values of metadata_file_path: the constructor's default None, a path with
\* no file behind it, and the paths of the files above.
MetadataFilePaths == {None, "missing.json"} \cup DOMAIN JsonFiles

\* Path(metafile).is_file()
IsFile(path) == path \in DOMAIN JsonFiles

RECURSIVE SeqsUpTo(_, _)
\* The non-empty sequences over S of length at most n.
SeqsUpTo(S, n) ==
    IF n = 0 THEN {}
    ELSE LET shorter == SeqsUpTo(S, n - 1)
         IN  {<<x>> : x \in S} \cup shorter
                \cup {Append(s, x) : s \in shorter, x \in S}

\* ------------------------------------------------------------------ state

VARIABLES
    readers_list,         \* self.readers_list: one reader per file, in files_paths order
    metadata_file_path,   \* self.source_data["metadata_file_path"]
    pc,                   \* "idle", "loop" (inside get_metadata), "returned", "raised"
    calls,                \* get_metadata invocations started so far
    metafile_sessions,    \* local metafile_sessions
    first_session_time,   \* local first_session_time
    Recordings,           \* metadata["Icephys"]["Recordings"]
    i, ii, iii,           \* the three running counters
    ir,                   \* enumerate index of the reader loop
    emitted,              \* history: <<file position, sg, el>> of each appended entry
    returned              \* history: the Recordings list of every completed call

\* The variables of get_metadata.
metadata_vars == << readers_list, metadata_file_path, pc, calls, metafile_sessions,
                    first_session_time, Recordings, i, ii, iii, ir, emitted, returned >>

VARIABLES
    devices,                   \* nwbfile.devices, in creation order
    icephys_electrodes,        \* nwbfile.icephys_electrodes, in creation order
    intracellular_recordings,  \* rows of nwbfile.intracellular_recordings
    warnings,                  \* the warnings recorded so far (warnings.warn)
    metadata,                  \* the caller's metadata mapping, as the last call left it
    error,                     \* exception the last call ended with, "none" when it returned
    call,                      \* history: the last call (operation, reader, metadata passed)
    before,                    \* history: container and warnings when the last call began
    appends                    \* calls made on the container so far

VARIABLES
    disk,                      \* the file at save_path, as write_neo_to_nwb left it
    electrode_table,           \* nwbfile.electrodes, the extracellular electrode table
    appended,                  \* history of the appends to the electrode table
    threads,                   \* two callers of add_icephys_electrode, step by step
    serialized                 \* whether the two callers are serialized externally

\* The file at save_path, the electrode table and the two callers.
extra_vars == << disk, electrode_table, appended, threads, serialized >>

nwbfile_vars == << devices, icephys_electrodes, intracellular_recordings, warnings,
                   metadata, error, call, before, appends, extra_vars >>

vars == << metadata_vars, nwbfile_vars >>

\* Python values that are not mappings, where a mapping is expected.
PyNone == [pynone |-> TRUE]
PyStr(s) == [pystr |-> s]
IsNone(v) == "pynone" \in DOMAIN v

\* dict()
EmptyDict == [k \in {} |-> 0]

\* A fresh pynwb.NWBFile on which nothing has been called.
NoCall == [op |-> "none", neo_reader |-> EmptyDict, metadata |-> PyNone]
EmptyNwbfile ==
    [ devices |-> <<>>, icephys_electrodes |-> <<>>, intracellular_recordings |-> <<>>,
      warnings |-> <<>> ]

\* No file at save_path.
NoFile ==
    [ exists |-> FALSE, readable |-> FALSE,
      devices |-> <<>>, icephys_electrodes |-> <<>>, intracellular_recordings |-> <<>> ]

\* An electrode table without columns and rows, to which nothing was appended.
EmptyTable == [colnames |-> <<>>, rows |-> <<>>]
NoAppend ==
    [ before |-> EmptyTable, batch |-> 0, error |-> "none",
      first_ids |-> <<>>, sizes |-> <<>>, introduced |-> <<>> ]

\* A caller that has not called.
Idle == [pc |-> "idle", name |-> "", device_name |-> "", error |-> "none", calls |-> 0]

ExtraFresh ==
    /\ disk = NoFile
    /\ electrode_table = EmptyTable
    /\ appended = NoAppend
    /\ threads = << Idle, Idle >>
    /\ serialized = TRUE

NwbfileFresh ==
    /\ ExtraFresh
    /\ devices = <<>>
    /\ icephys_electrodes = <<>>
    /\ intracellular_recordings = <<>>
    /\ warnings = <<>>
    /\ metadata = PyNone
    /\ error = "none"
    /\ call = NoCall
    /\ before = EmptyNwbfile
    /\ appends = 0

\* ------------------------------------------------- utils/neo.py accessors

\* len(neo_reader.header["signal_channels"])
get_number_of_electrodes(neo_reader) == Len(neo_reader.header.signal_channels)

\* neo_reader.header["nb_segment"][block]
get_number_of_segments(neo_reader, block) == neo_reader.header.nb_segment[block + 1]

\* --------------------------------------------------------- get_metadata

\* metafile_data.get("recording_sessions", dict()), metafile_data being the
\* loaded JSON when the path names a file and an empty dict otherwise.
MetafileSessions(metafile) ==
    LET metafile_data == IF IsFile(metafile) THEN JsonFiles[metafile] ELSE <<>>
    IN  Get(metafile_data, "recording_sessions", <<>>)

\* first_reader = self.readers_list[0]
FirstReader_last(readers) == readers[Len(readers)]
FirstReader(readers) == readers[1]

\* enumerate(self.readers_list): the positions of the caller's list in the
\* order the loop visits them.
IterationOrder_reversed(readers) == [k \in 1..Len(readers) |-> Len(readers) + 1 - k]
IterationOrder(readers) == [k \in 1..Len(readers) |-> k]

\* item = [s for s in metafile_sessions if s.get("abf_file_name", "") == abf_file_name]
\* extra_info = item[0] if len(item) > 0 else dict()
ExtraInfo(sessions, abf_file_name) ==
    LET item == SelectSeq(sessions, LAMBDA s : Get(s, "abf_file_name", "") = abf_file_name)
    IN  IF Len(item) > 0 THEN item[1] ELSE <<>>

\* The dict appended at lines 111-122.
Entry(rel, extra_info, c) ==
    [ relative_session_start_time       |-> rel,
      stimulus_type                     |-> Get(extra_info, "stimulus_type", "not described"),
      icephys_experiment_type           |-> Get(extra_info, "icephys_experiment_type", None),
      intracellular_recordings_table_id |-> c.i,
      simultaneous_recordings_table_id  |-> c.ii,
      sequential_recordings_table_id    |-> c.iii ]

\* The state the loops thread through: the list and the counters.
LoopState == [Recordings |-> Recordings, i |-> i, ii |-> ii, iii |-> iii,
              emitted |-> emitted]

\* i = 0; ii = 0; iii = 0 and a fresh Recordings list (lines 82-87); st is
\* what the previous call left behind.
FreshLoopState_keep(st) == [st EXCEPT !.Recordings = <<>>, !.emitted = <<>>]
FreshLoopState(st) == [Recordings |-> <<>>, i |-> 0, ii |-> 0, iii |-> 0, emitted |-> <<>>]

\* i += 1
AfterEntry_skip(st) == st
AfterEntry(st) == [st EXCEPT !.i = @ + 1]

\* ii += 1
AfterSegment_skip(st) == st
AfterSegment(st) == [st EXCEPT !.ii = @ + 1]

\* iii += 1
AfterReader_skip(st) == st
AfterReader(st) == [st EXCEPT !.iii = @ + 1]

RECURSIVE ForElectrodes(_, _, _, _, _, _, _)
\* for el in range(n_electrodes): append the entry, i += 1
ForElectrodes(st, el, n_electrodes, rel, extra_info, file, sg) ==
    IF el >= n_electrodes THEN st
    ELSE ForElectrodes(
            AfterEntry([st EXCEPT !.Recordings = Append(@, Entry(rel, extra_info, st)),
                                  !.emitted = Append(@, <<file, sg, el>>)]),
            el + 1, n_electrodes, rel, extra_info, file, sg)

RECURSIVE ForSegments(_, _, _, _, _, _, _)
\* for sg in range(n_segments): the electrode loop, ii += 1
ForSegments(st, sg, n_segments, n_electrodes, rel, extra_info, file) ==
    IF sg >= n_segments THEN st
    ELSE ForSegments(
            AfterSegment(ForElectrodes(st, 0, n_electrodes, rel, extra_info, file, sg)),
            sg + 1, n_segments, n_electrodes, rel, extra_info, file)

\* One pass of the body of "for ir, reader in enumerate(self.readers_list)".
ReaderBody(st, file, reader, sessions, first) ==
    LET abf_file_name == AbfFileName(reader.filename)
        extra_info    == ExtraInfo(sessions, abf_file_name)
        abfDateTime   == AbfDateTime(reader._axon_info)
        relative_session_start_time == TimedeltaSeconds(DatetimeSub(abfDateTime, first))
        n_segments    == get_number_of_segments(reader, 0)
        n_electrodes  == get_number_of_electrodes(reader)
    IN  AfterReader(ForSegments(st, 0, n_segments, n_electrodes,
                                relative_session_start_time, extra_info, file))

\* ----------------------------------------------------------------- actions

Init ==
    /\ readers_list \in SeqsUpTo(AbfFiles, MaxFiles)
    /\ metadata_file_path \in MetadataFilePaths
    /\ pc = "idle"
    /\ calls = 0
    /\ metafile_sessions = <<>>
    /\ first_session_time = [day |-> 1, second |-> 0]
    /\ Recordings = <<>>
    /\ i = 0 /\ ii = 0 /\ iii = 0
    /\ ir = 0
    /\ emitted = <<>>
    /\ returned = <<>>
    /\ NwbfileFresh

\* get_metadata is entered with the default metadata_file_path: Path(None)
\* raises TypeError at line 42, before anything is computed.
GetMetadataRaises ==
    /\ pc \in {"idle", "returned", "raised"}
    /\ calls < MaxCalls
    /\ metadata_file_path = None
    /\ pc' = "raised"
    /\ calls' = calls + 1
    /\ UNCHANGED << nwbfile_vars, readers_list, metadata_file_path, metafile_sessions,
                    first_session_time, Recordings, i, ii, iii, ir, emitted, returned >>

\* get_metadata, lines 36-87: the side file is loaded, the first file's start
\* time taken, the list and the counters reset.
GetMetadataStart ==
    /\ pc \in {"idle", "returned", "raised"}
    /\ calls < MaxCalls
    /\ metadata_file_path # None
    /\ LET st == FreshLoopState(LoopState)
       IN  /\ Recordings' = st.Recordings
           /\ i' = st.i /\ ii' = st.ii /\ iii' = st.iii
           /\ emitted' = st.emitted
    /\ metafile_sessions' = MetafileSessions(metadata_file_path)
    /\ first_session_time' = AbfDateTime(FirstReader(readers_list)._axon_info)
    /\ ir' = 0
    /\ pc' = "loop"
    /\ calls' = calls + 1
    /\ UNCHANGED << nwbfile_vars, readers_list, metadata_file_path, returned >>

\* One iteration of the reader loop, lines 88-125.
ReaderLoop ==
    /\ pc = "loop"
    /\ ir < Len(readers_list)
    /\ LET file == IterationOrder(readers_list)[ir + 1]
           st   == ReaderBody(LoopState, file, readers_list[file],
                              metafile_sessions, first_session_time)
       IN  /\ Recordings' = st.Recordings
           /\ i' = st.i /\ ii' = st.ii /\ iii' = st.iii
           /\ emitted' = st.emitted
    /\ ir' = ir + 1
    /\ UNCHANGED << nwbfile_vars, readers_list, metadata_file_path, pc, calls, metafile_sessions,
                    first_session_time, returned >>

\* return metadata, line 127.
GetMetadataReturn ==
    /\ pc = "loop"
    /\ ir = Len(readers_list)
    /\ pc' = "returned"
    /\ returned' = Append(returned, Recordings)
    /\ UNCHANGED << nwbfile_vars, readers_list, metadata_file_path, calls, metafile_sessions,
                    first_session_time, Recordings, i, ii, iii, ir, emitted >>

Next ==
    \/ GetMetadataRaises
    \/ GetMetadataStart
    \/ ReaderLoop
    \/ GetMetadataReturn

Spec == Init /\ [][Next]_vars

\* ---------------------------------------------- vocabulary of the properties

\* Segment and electrode counts a file declares.
NSeg(reader) == reader.header.nb_segment[1]
NElec(reader) == Len(reader.header.signal_channels)

RECURSIVE SumEntries(_)
\* sum of s_i * e_i over the files of a list
SumEntries(readers) ==
    IF readers = <<>> THEN 0
    ELSE NSeg(Head(readers)) * NElec(Head(readers)) + SumEntries(Tail(readers))

RECURSIVE SumSegments(_)
\* sum of s_i over the files of a list
SumSegments(readers) ==
    IF readers = <<>> THEN 0
    ELSE NSeg(Head(readers)) + SumSegments(Tail(readers))

RECURSIVE SumSegmentsWithElectrodes(_)
\* sum of s_i over the files that have at least one electrode
SumSegmentsWithElectrodes(readers) ==
    IF readers = <<>> THEN 0
    ELSE (IF NElec(Head(readers)) > 0 THEN NSeg(Head(readers)) ELSE 0)
            + SumSegmentsWithElectrodes(Tail(readers))

\* Positions of the files that emit at least one entry.
FilesWithEntries(readers) ==
    {f \in DOMAIN readers : NSeg(readers[f]) > 0 /\ NElec(readers[f]) > 0}

\* The three ids of the entries, as sequences in emission order.
IntracellularIds == [k \in DOMAIN Recordings |-> Recordings[k].intracellular_recordings_table_id]
SimultaneousIds == [k \in DOMAIN Recordings |-> Recordings[k].simultaneous_recordings_table_id]
SequentialIds == [k \in DOMAIN Recordings |-> Recordings[k].sequential_recordings_table_id]

Range(f) == {f[x] : x \in DOMAIN f}

\* File position, segment and electrode an entry was emitted for.
FileOf(k) == emitted[k][1]
SegOf(k) == emitted[k][2]
ElecOf(k) == emitted[k][3]

Shape(readers) == [f \in DOMAIN readers |-> <<NSeg(readers[f]), NElec(readers[f])>>]

\* ------------------------------------------------------------------ claims

\* C1: the intracellular ids of the entries get_metadata produces are exactly
\* 0 .. sum(s_i * e_i) - 1, in emission order, without gap or repeat.
C1_IntracellularIdsContiguous ==
    /\ \A k \in DOMAIN Recordings : IntracellularIds[k] = k - 1
    /\ pc = "returned" => Len(Recordings) = SumEntries(readers_list)

C1_Witness ==
    /\ pc = "returned"
    /\ Len(readers_list) = 2
    /\ Shape(readers_list)[1] # Shape(readers_list)[2]
    /\ FilesWithEntries(readers_list) = {1, 2}
    /\ Len(Recordings) >= 5

\* Two entries carry the same simultaneous id exactly when they come from the
\* same segment of the same file.
SimultaneousIdMeansSameSegment ==
    \A a, b \in DOMAIN Recordings :
        (SimultaneousIds[a] = SimultaneousIds[b])
            <=> (FileOf(a) = FileOf(b) /\ SegOf(a) = SegOf(b))

\* C2 as stated: the simultaneous id takes exactly sum(s_i) distinct values,
\* one per (file, segment), shared by exactly the entries of that segment.
C2_SimultaneousOnePerSegment ==
    pc = "returned" =>
        /\ Cardinality(Range(SimultaneousIds)) = SumSegments(readers_list)
        /\ SimultaneousIdMeansSameSegment

\* C2 amended: the simultaneous id takes one distinct value per (file, segment)
\* of the files that have at least one electrode, shared by exactly the
\* entries of that segment.
C2_SimultaneousOnePerEmittedSegment ==
    /\ SimultaneousIdMeansSameSegment
    /\ pc = "returned" =>
          Cardinality(Range(SimultaneousIds)) = SumSegmentsWithElectrodes(readers_list)

C2_Witness ==
    /\ pc = "returned"
    /\ \E f \in DOMAIN readers_list :
          NSeg(readers_list[f]) > 0 /\ NElec(readers_list[f]) = 0
    /\ \E a, b, c \in DOMAIN Recordings :
          /\ a # b /\ SimultaneousIds[a] = SimultaneousIds[b]
          /\ SimultaneousIds[a] # SimultaneousIds[c]

\* Two entries carry the same sequential id exactly when they come from the
\* same file.
SequentialIdMeansSameFile ==
    \A a, b \in DOMAIN Recordings :
        (SequentialIds[a] = SequentialIds[b]) <=> (FileOf(a) = FileOf(b))

\* C3 as stated: the sequential id takes exactly n distinct values for n
\* files, whatever their segment and electrode counts.
C3_SequentialOnePerFile ==
    pc = "returned" =>
        /\ Cardinality(Range(SequentialIds)) = Len(readers_list)
        /\ SequentialIdMeansSameFile

\* C3 amended: the sequential id of an entry is the position of its file in
\* the list, shared by all segments of that file, and it takes one distinct
\* value per file that has at least one segment and one electrode.
C3_SequentialOnePerEmittingFile ==
    /\ SequentialIdMeansSameFile
    /\ \A k \in DOMAIN Recordings : SequentialIds[k] = FileOf(k) - 1
    /\ pc = "returned" =>
          Cardinality(Range(SequentialIds)) = Cardinality(FilesWithEntries(readers_list))

C3_Witness ==
    /\ pc = "returned"
    /\ Len(readers_list) = 2
    /\ FilesWithEntries(readers_list) = {2}
    /\ \E a, b \in DOMAIN Recordings : SegOf(a) # SegOf(b)

\* The scenario of C4: file1 has 2 segments x 2 electrodes, file2 has
\* 1 segment x 2 electrodes, and get_metadata has returned.
C4_Scenario ==
    /\ pc = "returned"
    /\ Shape(readers_list) = << <<2, 2>>, <<1, 2>> >>

\* C4 as stated: the scenario yields intracellular ids 0..7, simultaneous ids
\* 0,1 for file1 (two entries each) and 2 for file2, sequential id 0 for
\* file1's four entries and 1 for file2's two.
C4_ScenarioIdsTo7 ==
    C4_Scenario =>
        /\ IntracellularIds = <<0, 1, 2, 3, 4, 5, 6, 7>>
        /\ SimultaneousIds = <<0, 0, 1, 1, 2, 2>>
        /\ SequentialIds = <<0, 0, 0, 0, 1, 1>>

\* C4 amended: the scenario yields six entries with intracellular ids 0..5;
\* the simultaneous and sequential ids are as stated.
C4_ScenarioIdsTo5 ==
    C4_Scenario =>
        /\ IntracellularIds = <<0, 1, 2, 3, 4, 5>>
        /\ SimultaneousIds = <<0, 0, 1, 1, 2, 2>>
        /\ SequentialIds = <<0, 0, 0, 0, 1, 1>>
        /\ [k \in DOMAIN emitted |-> FileOf(k)] = <<1, 1, 1, 1, 2, 2>>

C4_Witness == C4_Scenario /\ Len(Recordings) = 6

RECURSIVE Concat(_)
Concat(lists) == IF lists = <<>> THEN <<>> ELSE Head(lists) \o Concat(Tail(lists))

\* The dataset the calls contribute to: the entries of every completed
\* get_metadata call, in call order.
Dataset == Concat(returned)

\* C5: intracellular ids are strictly increasing, hence unique, across the
\* whole dataset, also when several get_metadata calls contribute to it.
C5_DatasetIdsStrictlyIncreasing ==
    \A a, b \in DOMAIN Dataset :
        a < b => Dataset[a].intracellular_recordings_table_id
                    < Dataset[b].intracellular_recordings_table_id

\* Wall-clock start of the file at a position of the list, to the second.
StartOf(f) == AbfDateTime(readers_list[f]._axon_info)

\* Whole seconds from the start of the first file to the start of file f
\* (negative when f starts earlier).
SecondsAfterFirst(f) ==
    (StartOf(f).day - StartOf(1).day) * 86400 + (StartOf(f).second - StartOf(1).second)

\* C6: relative_session_start_time of an entry is the start of its file minus
\* the start of the first file, in whole seconds.
C6_RelativeTimeIsDifference ==
    \A k \in DOMAIN Recordings :
        Recordings[k].relative_session_start_time = SecondsAfterFirst(FileOf(k))

\* C7: every entry of the first file has relative_session_start_time 0.
C7_FirstFileRelativeTimeZero ==
    \A k \in DOMAIN Recordings :
        FileOf(k) = 1 => Recordings[k].relative_session_start_time = 0

C7_Witness ==
    /\ pc = "returned"
    /\ \E a, b \in DOMAIN Recordings :
          /\ FileOf(a) = 1 /\ FileOf(b) = 2
          /\ Recordings[a].relative_session_start_time = 0
          /\ Recordings[b].relative_session_start_time # 0

\* C8: an entry of a file that starts before the first file of the list has a
\* negative relative_session_start_time.
C8_EarlierFileNegative ==
    \A k \in DOMAIN Recordings :
        SecondsAfterFirst(FileOf(k)) < 0
            => Recordings[k].relative_session_start_time < 0

\* a before b in the order file, then segment, then electrode
Before(a, b) ==
    \/ a[1] < b[1]
    \/ a[1] = b[1] /\ a[2] < b[2]
    \/ a[1] = b[1] /\ a[2] = b[2] /\ a[3] < b[3]

\* Every (file position, segment, electrode) of a file list.
AllTriples(readers) ==
    UNION { { <<f, sg, el>> : sg \in 0..(NSeg(readers[f]) - 1),
                              el \in 0..(NElec(readers[f]) - 1) } :
            f \in DOMAIN readers }

\* C9: every call of get_metadata over the same file list and side table
\* returns the same entries, and the entries are emitted in the caller's file
\* order, then segment order, then electrode order, each (file, segment,
\* electrode) once.
C9_DeterministicInCallerOrder ==
    /\ \A a, b \in DOMAIN returned : returned[a] = returned[b]
    /\ \A k \in DOMAIN emitted : k > 1 => Before(emitted[k - 1], emitted[k])
    /\ pc = "returned" => Range(emitted) = AllTriples(readers_list)

C9_Witness ==
    /\ pc = "returned"
    /\ Len(returned) = 2
    /\ Len(readers_list) = 2
    /\ StartOf(2).day < StartOf(1).day
    /\ \E a, b \in DOMAIN Recordings : FileOf(a) = 1 /\ FileOf(b) = 2

\* The recording_sessions list of the side file on disk, empty when there is
\* no side file or it has no such list.
SideTable ==
    IF metadata_file_path \in DOMAIN JsonFiles
          /\ "recording_sessions" \in DOMAIN JsonFiles[metadata_file_path]
    THEN JsonFiles[metadata_file_path].recording_sessions
    ELSE <<>>

\* Positions of the side-table records named after the file at position f.
MatchingRecords(f) ==
    LET path == readers_list[f].filename
    IN  { j \in DOMAIN SideTable :
            /\ "abf_file_name" \in DOMAIN SideTable[j]
            /\ SideTable[j].abf_file_name = path[Len(path)] }

Min(S) == CHOOSE x \in S : \A y \in S : x <= y

MaxAppends == 2

\* d[key] = value on a dict
Put(d, key, value) == [k \in DOMAIN d \cup {key} |-> IF k = key THEN value ELSE d[k]]

\* isinstance(x, dict)
IsInstanceDict(x) == "pystr" \notin DOMAIN x /\ "pynone" \notin DOMAIN x

\* The state one call works on: the container, the warnings recorded, the
\* caller's metadata mapping and the exception raised, if any.
Raise(nwb, exception) == [nwb EXCEPT !.error = exception]
Ok(nwb) == nwb.error = "none"

\* warnings.warn(...)
Warn(nwb, category, name) ==
    [nwb EXCEPT !.warnings = Append(@, [category |-> category, name |-> name])]

\* name in nwbfile.devices, name in nwbfile.icephys_electrodes
Names(entities) == {entities[k].name : k \in DOMAIN entities}

\* nwbfile.devices[name]
Entity(entities, name) ==
    entities[CHOOSE k \in DOMAIN entities : entities[k].name = name]

\* nwbfile.create_device(name=..., description=...): pynwb refuses a second
\* object under a name its collection already holds.
create_device(nwb, name, description) ==
    IF name \in Names(nwb.devices) THEN Raise(nwb, "ValueError")
    ELSE [nwb EXCEPT !.devices = Append(@, [name |-> name, description |-> description])]

\* nwbfile.create_icephys_electrode(name=..., description=..., device=...)
create_icephys_electrode(nwb, name, description, device) ==
    IF name \in Names(nwb.icephys_electrodes) THEN Raise(nwb, "ValueError")
    ELSE [nwb EXCEPT !.icephys_electrodes =
            Append(@, [name |-> name, description |-> description, device |-> device])]

\* ------------------------------------------- conversion_tools.add_devices

\* The default device of add_devices.
DefaultDevice == [name |-> "Device", description |-> "no description"]

\* metadata[data_type]["Device"], empty when no device is named.
RequestedDevices(md, data_type) ==
    IF ~IsNone(md) /\ data_type \in DOMAIN md /\ "Device" \in DOMAIN md[data_type]
    THEN md[data_type].Device
    ELSE <<>>

\* One requested device: an existing device of that name is reused as it is
\* (a differing description is a conflict, warned about); otherwise the device
\* is created with the fields the request gives.
ResolveDevice(nwb, dev) ==
    LET name == Get(dev, "name", DefaultDevice.name)
    IN  IF name \in Names(nwb.devices)
        THEN IF "description" \in DOMAIN dev
                  /\ dev.description # Entity(nwb.devices, name).description
             THEN Warn(nwb, "identity_conflict", name)
             ELSE nwb
        ELSE create_device(nwb, name, Get(dev, "description", None))

RECURSIVE ResolveDevices(_, _, _)
ResolveDevices(nwb, requested, k) ==
    IF k > Len(requested) \/ ~Ok(nwb) THEN nwb
    ELSE ResolveDevices(ResolveDevice(nwb, requested[k]), requested, k + 1)

\* add_devices(nwbfile, data_type, metadata): every named device is resolved
\* by name; when none is named and the container has no device, the default
\* device is created.
add_devices(nwb, data_type, md) ==
    LET requested == RequestedDevices(md, data_type)
    IN  IF Len(requested) = 0
        THEN IF Len(nwb.devices) = 0
             THEN create_device(nwb, DefaultDevice.name, DefaultDevice.description)
             ELSE nwb
        ELSE ResolveDevices(nwb, requested, 1)

\* ------------------------------------------------- add_icephys_electrode

\* f"icephys_electrode_{elec_id}"
ElectrodeName(elec_id) == "icephys_electrode_" \o ToString(elec_id)

\* The list "defaults" (lines 146-153): one entry per channel of the reader,
\* each naming the first device of the container.
Defaults(nwb, neo_reader) ==
    [ k \in 1..get_number_of_electrodes(neo_reader) |->
        [ name        |-> ElectrodeName(k - 1),
          description |-> "no description",
          device_name |-> nwb.devices[1].name ] ]

\* elec.get("name", ...) not in nwbfile.icephys_electrodes (line 164)
ElectrodeAbsent_always(name, nwb) == TRUE
ElectrodeAbsent(name, nwb) == name \notin Names(nwb.icephys_electrodes)

\* device_name not in nwbfile.devices (line 166)
DeviceAbsent_always(device_name, nwb) == TRUE
DeviceAbsent(device_name, nwb) == device_name \notin Names(nwb.devices)

\* What the loop does with an entry whose name is already in the container:
\* the if of line 164 has no else branch.
OnExistingElectrode_update(nwb, name, elec) ==
    [ nwb EXCEPT !.icephys_electrodes =
        [ k \in DOMAIN @ |->
            IF @[k].name = name /\ "description" \in DOMAIN elec
            THEN [@[k] EXCEPT !.description = elec.description]
            ELSE @[k] ] ]
OnExistingElectrode(nwb, name, elec) == nwb

\* Lines 166-172: the device an electrode names is generated when the
\* container lacks it, and the generation is warned about.
LinkDevice_nocreate(nwb, device_name) == nwb
LinkDevice(nwb, device_name) ==
    IF DeviceAbsent(device_name, nwb)
    THEN LET new_device_metadata ==
                [Ecephys |-> [Device |-> << [name |-> device_name] >>]]
             made == add_devices(nwb, "Ecephys", new_device_metadata)
         IN  IF Ok(made) THEN Warn(made, "device_autogenerated", device_name) ELSE made
    ELSE nwb

\* The body of "for elec in metadata['Icephys']['Electrodes']", lines 164-178.
\* defaults[0] is evaluated for every entry, also one that gives its own name.
ElectrodeBody_lastdefault(nwb, elec, defaults) ==
    IF Len(defaults) = 0 THEN Raise(nwb, "IndexError")
    ELSE LET name == Get(elec, "name", defaults[Len(defaults)].name)
         IN  IF ElectrodeAbsent(name, nwb)
             THEN LET device_name == Get(elec, "device_name", defaults[1].device_name)
                      linked == LinkDevice(nwb, device_name)
                  IN  IF ~Ok(linked) THEN linked
                      ELSE IF device_name \notin Names(linked.devices)
                      THEN Raise(linked, "KeyError")
                      ELSE create_icephys_electrode(
                               linked, name,
                               Get(elec, "description", defaults[1].description),
                               device_name)
             ELSE OnExistingElectrode(nwb, name, elec)
ElectrodeBody(nwb, elec, defaults) ==
    IF Len(defaults) = 0 THEN Raise(nwb, "IndexError")
    ELSE LET name == Get(elec, "name", defaults[1].name)
         IN  IF ElectrodeAbsent(name, nwb)
             THEN LET device_name == Get(elec, "device_name", defaults[1].device_name)
                      linked == LinkDevice(nwb, device_name)
                  IN  IF ~Ok(linked) THEN linked
                      ELSE IF device_name \notin Names(linked.devices)
                      THEN Raise(linked, "KeyError")
                      ELSE create_icephys_electrode(
                               linked, name,
                               Get(elec, "description", defaults[1].description),
                               device_name)
             ELSE OnExistingElectrode(nwb, name, elec)

RECURSIVE ElectrodeLoop(_, _, _, _)
ElectrodeLoop(nwb, electrodes, k, defaults) ==
    IF k > Len(electrodes) \/ ~Ok(nwb) THEN nwb
    ELSE ElectrodeLoop(ElectrodeBody(nwb, electrodes[k], defaults), electrodes, k + 1, defaults)

\* all([isinstance(x, dict) for x in metadata["Icephys"]["Electrodes"]])
AllDicts(electrodes) == \A k \in DOMAIN electrodes : IsInstanceDict(electrodes[k])

\* Lines 140-156 on the metadata: None becomes a new dict, a missing "Icephys"
\* is added, a missing or empty "Electrodes" is set to the defaults.
WithElectrodes(md, defaults) ==
    LET md1 == IF IsNone(md) THEN EmptyDict ELSE md
        md2 == IF "Icephys" \notin DOMAIN md1 THEN Put(md1, "Icephys", EmptyDict) ELSE md1
    IN  IF "Electrodes" \notin DOMAIN md2.Icephys \/ Len(md2.Icephys.Electrodes) = 0
        THEN Put(md2, "Icephys", Put(md2.Icephys, "Electrodes", defaults))
        ELSE md2

\* add_icephys_electrode(neo_reader, nwbfile, metadata), lines 133-178. md is
\* the mapping the caller passed; a caller that passed None sees no mapping
\* afterwards, any other caller sees its mapping as the function left it.
add_icephys_electrode_copy(nwb, neo_reader, md) ==
    LET s1 == IF Len(nwb.devices) = 0
              THEN add_devices(Warn(nwb, "no_devices", ""), "Ecephys", md)
              ELSE nwb
    IN  IF ~Ok(s1) THEN s1
        ELSE IF get_number_of_electrodes(neo_reader) > 0 /\ Len(s1.devices) = 0
        THEN Raise(s1, "IndexError")
        ELSE LET defaults == Defaults(s1, neo_reader)
                 local    == WithElectrodes(md, defaults)
                 s2       == s1
             IN  IF ~AllDicts(local.Icephys.Electrodes)
                 THEN Raise(s2, "AssertionError: Electrodes")
                 ELSE ElectrodeLoop(s2, local.Icephys.Electrodes, 1, defaults)
add_icephys_electrode(nwb, neo_reader, md) ==
    LET s1 == IF Len(nwb.devices) = 0
              THEN add_devices(Warn(nwb, "no_devices", ""), "Ecephys", md)
              ELSE nwb
    IN  IF ~Ok(s1) THEN s1
        ELSE IF get_number_of_electrodes(neo_reader) > 0 /\ Len(s1.devices) = 0
        THEN Raise(s1, "IndexError")
        ELSE LET defaults == Defaults(s1, neo_reader)
                 local    == WithElectrodes(md, defaults)
                 s2       == [s1 EXCEPT !.metadata = IF IsNone(md) THEN md ELSE local]
             IN  IF ~AllDicts(local.Icephys.Electrodes)
                 THEN Raise(s2, "AssertionError: Electrodes")
                 ELSE ElectrodeLoop(s2, local.Icephys.Electrodes, 1, defaults)

\* ------------------------------------------------- add_icephys_recording

\* n_commands == n_segments (the assertion of lines 200-202)
CommandsConsistent_always(n_commands, n_segments) == TRUE
CommandsConsistent(n_commands, n_segments) == n_commands = n_segments

add_intracellular_recording_reset(nwb, electrode, si, ei) ==
    [ nwb EXCEPT !.intracellular_recordings =
        << [electrode |-> electrode.name, segment |-> si, channel |-> ei] >> ]
\* nwbfile.add_intracellular_recording(electrode=, stimulus=, response=)
add_intracellular_recording(nwb, electrode, si, ei) ==
    [ nwb EXCEPT !.intracellular_recordings =
        Append(@, [electrode |-> electrode.name, segment |-> si, channel |-> ei]) ]

RecordingBody_izero(nwb, neo_reader, si, ei, chunk_raises) ==
    LET traces == neo_reader.protocol[1]
    IN  IF ei >= get_number_of_electrodes(neo_reader) /\ chunk_raises
        THEN Raise(nwb, "IndexError")
        ELSE IF Len(traces) = 0
        THEN add_intracellular_recording(nwb, nwb.icephys_electrodes[ei + 1], si, ei)
        ELSE IF si >= Len(traces) THEN Raise(nwb, "IndexError")
        ELSE IF ei >= Len(traces[si + 1]) THEN Raise(nwb, "IndexError")
        ELSE add_intracellular_recording(nwb, nwb.icephys_electrodes[ei + 1], si, ei)
\* Lines 211-232 for one segment and one electrode of the container. The
\* response reads channel ei of the reader: what a reader does when asked for
\* a channel it does not have is the reader's business (chunk_raises); the
\* stimulus indexes protocol[0][si][ei].
RecordingBody(nwb, neo_reader, si, ei, chunk_raises) ==
    LET traces == neo_reader.protocol[1]
    IN  IF ei >= get_number_of_electrodes(neo_reader) /\ chunk_raises
        THEN Raise(nwb, "IndexError")
        ELSE IF si >= Len(traces) THEN Raise(nwb, "IndexError")
        ELSE IF ei >= Len(traces[si + 1]) THEN Raise(nwb, "IndexError")
        ELSE add_intracellular_recording(nwb, nwb.icephys_electrodes[ei + 1], si, ei)

RECURSIVE RecordingLoop(_, _, _, _, _, _)
RecordingLoop_channels(nwb, neo_reader, si, ei, n_segments, chunk_raises) ==
    IF ~Ok(nwb) \/ si >= n_segments THEN nwb
    ELSE IF ei >= Len(nwb.icephys_electrodes) \/ ei >= get_number_of_electrodes(neo_reader)
    THEN RecordingLoop(nwb, neo_reader, si + 1, 0, n_segments, chunk_raises)
    ELSE RecordingLoop(RecordingBody(nwb, neo_reader, si, ei, chunk_raises),
                       neo_reader, si, ei + 1, n_segments, chunk_raises)
\* for si in range(n_segments): for ei, electrode in enumerate(electrodes)
RecordingLoop(nwb, neo_reader, si, ei, n_segments, chunk_raises) ==
    IF ~Ok(nwb) \/ si >= n_segments THEN nwb
    ELSE IF ei >= Len(nwb.icephys_electrodes)
    THEN RecordingLoop(nwb, neo_reader, si + 1, 0, n_segments, chunk_raises)
    ELSE RecordingLoop(RecordingBody(nwb, neo_reader, si, ei, chunk_raises),
                       neo_reader, si, ei + 1, n_segments, chunk_raises)

\* add_icephys_recording(neo_reader, nwbfile, metadata), lines 192-232
add_icephys_recording(nwb, neo_reader, chunk_raises) ==
    LET n_segments == get_number_of_segments(neo_reader, 0)
        n_commands == Len(neo_reader.protocol[1])
    IN  IF n_commands # 0 /\ ~CommandsConsistent(n_commands, n_segments)
        THEN Raise(nwb, "AssertionError: commands")
        ELSE RecordingLoop(nwb, neo_reader, 0, 0, n_segments, chunk_raises)

\* ------------------------------------ add_all_to_nwbfile, write_neo_to_nwb

\* get_nwb_metadata(neo_reader), lines 99-107, without the NWBFile block
get_nwb_metadata ==
    [Icephys |-> [Device |-> << [name |-> "Device", description |-> "no description"] >>]]

\* add_all_to_nwbfile, lines 296-306: devices, then electrodes, then
\* recordings; an exception ends the call where it is raised.
add_all_to_nwbfile_skipdevices(nwb, neo_reader, md, chunk_raises) ==
    LET s2 == add_icephys_electrode(nwb, neo_reader, md)
    IN  IF ~Ok(s2) THEN s2 ELSE add_icephys_recording(s2, neo_reader, chunk_raises)
add_all_to_nwbfile(nwb, neo_reader, md, chunk_raises) ==
    LET s1 == add_devices(nwb, "Icephys", md)
        s2 == IF Ok(s1) THEN add_icephys_electrode(s1, neo_reader, md) ELSE s1
    IN  IF ~Ok(s2) THEN s2 ELSE add_icephys_recording(s2, neo_reader, chunk_raises)

\* write_neo_to_nwb with an nwbfile object, lines 431-432 and 468-480: a
\* missing metadata is replaced by get_nwb_metadata; the caller's own
\* argument stays None.
write_neo_to_nwb(nwb, neo_reader, md, chunk_raises) ==
    LET local == IF IsNone(md) THEN get_nwb_metadata ELSE md
        done  == add_all_to_nwbfile([nwb EXCEPT !.metadata = local], neo_reader, local,
                                    chunk_raises)
    IN  IF IsNone(md) THEN [done EXCEPT !.metadata = md] ELSE done

\* ----------------------------------------------------------------- inputs

Sweep(n) == [k \in 1..n |-> "command"]

NeoReader(nchan, nseg, traces) ==
    [ header   |-> [nb_segment |-> <<nseg>>, signal_channels |-> Channels(nchan)],
      protocol |-> << traces >> ]

\* The readers of the calls: one and two channels with a command trace per
\* segment, one command short of the segments, no command at all, no channel.
NeoReaders ==
    << NeoReader(1, 1, << Sweep(1) >>),
       NeoReader(2, 2, << Sweep(2), Sweep(2) >>),
       NeoReader(2, 2, << Sweep(2) >>),
       NeoReader(1, 1, << >>),
       NeoReader(0, 1, << Sweep(0) >>) >>

\* The metadata a caller passes: nothing, the default mapping, two mappings
\* that name the same device and electrode with different descriptions (one
\* with a device no Device entry names, one with two nameless entries), an
\* Electrodes list that is not a list of mappings, an empty Electrodes list.
MetadataOptions ==
    << PyNone,
       get_nwb_metadata,
       [Icephys |->
          [Device |-> << [name |-> "Amplifier", description |-> "patch clamp"] >>,
           Electrodes |->
              << [name |-> "elec0", description |-> "whole-cell", device_name |-> "Amplifier"],
                 [name |-> "elec1", description |-> "sharp", device_name |-> "Rig"] >>]],
       [Icephys |->
          [Device |-> << [name |-> "Amplifier", description |-> "spare"] >>,
           Electrodes |->
              << [name |-> "elec0", description |-> "sharp", device_name |-> "Rig"],
                 [description |-> "nameless"],
                 [description |-> "nameless too", device_name |-> "Rig"] >>]],
       [Icephys |->
          [Device |-> << [name |-> "Amplifier", description |-> "patch clamp"] >>,
           Electrodes |->
              << [name |-> "elec2", description |-> "sharp", device_name |-> "Stage"],
                 PyStr("elec3") >>]],
       [Icephys |-> [Electrodes |-> << >>]] >>

\* ----------------------------------------------------------------- actions

\* The container as a call finds it, with the mapping the caller passes.
Begin(md) ==
    [ devices |-> devices, icephys_electrodes |-> icephys_electrodes,
      intracellular_recordings |-> intracellular_recordings,
      warnings |-> warnings, metadata |-> md, error |-> "none" ]

\* The container as a call leaves it.
Commit(nwb, op, neo_reader, md) ==
    /\ devices' = nwb.devices
    /\ icephys_electrodes' = nwb.icephys_electrodes
    /\ intracellular_recordings' = nwb.intracellular_recordings
    /\ warnings' = nwb.warnings
    /\ metadata' = nwb.metadata
    /\ error' = nwb.error
    /\ call' = [op |-> op, neo_reader |-> neo_reader, metadata |-> md]
    /\ before' = [ devices |-> devices, icephys_electrodes |-> icephys_electrodes,
                   intracellular_recordings |-> intracellular_recordings,
                   warnings |-> warnings ]
    /\ appends' = appends + 1
    /\ UNCHANGED << metadata_vars, extra_vars >>

\* The mapping of a call: one of the options, or (0) the mapping the previous
\* call was given, as that call left it.
Passed(m) == IF m = 0 THEN metadata ELSE MetadataOptions[m]

NwbInit ==
    /\ readers_list = << >>
    /\ metadata_file_path = None
    /\ pc = "idle"
    /\ calls = MaxCalls
    /\ metafile_sessions = <<>>
    /\ first_session_time = [day |-> 1, second |-> 0]
    /\ Recordings = <<>>
    /\ i = 0 /\ ii = 0 /\ iii = 0
    /\ ir = 0
    /\ emitted = <<>>
    /\ returned = <<>>
    /\ NwbfileFresh

AddIcephysElectrode ==
    /\ appends < MaxAppends
    /\ \E r \in DOMAIN NeoReaders, m \in 0..Len(MetadataOptions) :
          \E nwb \in {add_icephys_electrode(Begin(Passed(m)), NeoReaders[r], Passed(m))} :
              Commit(nwb, "add_icephys_electrode", NeoReaders[r], Passed(m))

AddIcephysRecording ==
    /\ appends < MaxAppends
    /\ \E r \in DOMAIN NeoReaders, chunk_raises \in BOOLEAN :
          \E nwb \in {add_icephys_recording(Begin(metadata), NeoReaders[r], chunk_raises)} :
              Commit(nwb, "add_icephys_recording", NeoReaders[r], metadata)

AddAllToNwbfile ==
    /\ appends < MaxAppends
    /\ \E r \in DOMAIN NeoReaders, m \in 0..Len(MetadataOptions), chunk_raises \in BOOLEAN :
          \E nwb \in {add_all_to_nwbfile(Begin(Passed(m)), NeoReaders[r], Passed(m),
                                          chunk_raises)} :
              Commit(nwb, "add_all_to_nwbfile", NeoReaders[r], Passed(m))

WriteNeoToNwb ==
    /\ appends < MaxAppends
    /\ \E r \in DOMAIN NeoReaders, m \in 0..Len(MetadataOptions), chunk_raises \in BOOLEAN :
          \E nwb \in {write_neo_to_nwb(Begin(Passed(m)), NeoReaders[r], Passed(m),
                                        chunk_raises)} :
              Commit(nwb, "write_neo_to_nwb", NeoReaders[r], Passed(m))

\* ------------------------------------------- write_neo_to_nwb, save_path

\* The one path the callers write to.
SavePath == "out.nwb"

\* Lines 435-438: append to the file that is there unless told to overwrite.
ReadMode(dsk, overwrite) == IF dsk.exists /\ ~overwrite THEN "r+" ELSE "w"

\* io.write(nwbfile), line 466
Written(nwb) ==
    [ exists |-> TRUE, readable |-> TRUE,
      devices |-> nwb.devices, icephys_electrodes |-> nwb.icephys_electrodes,
      intracellular_recordings |-> nwb.intracellular_recordings ]

\* A file opened for writing and never written.
Truncated == [NoFile EXCEPT !.exists = TRUE]

SavePathOrNwbfile_either(save_path, nwbfile_given) == TRUE
\* save_path is None or nwbfile is None (the assertion of line 429)
SavePathOrNwbfile(save_path, nwbfile_given) == save_path = None \/ ~nwbfile_given

\* write_neo_to_nwb, lines 429-480, for every combination of save_path and
\* nwbfile. It yields the nwbfile object the call worked on (the caller's, or
\* the one read from or made for the file) and the file. Whether NWBHDF5IO
\* creates the file when it is opened in mode "w" or only when it is written is
\* the library's choice (opens_eagerly).
write_neo_to_nwb_args(nwb, dsk, neo_reader, save_path, overwrite, nwbfile_given, md, chunk_raises, opens_eagerly) ==
    LET local == IF IsNone(md) THEN get_nwb_metadata ELSE md
    IN  IF ~SavePathOrNwbfile(save_path, nwbfile_given)
        THEN [nwb |-> Raise(nwb, "AssertionError: save_path or nwbfile"), disk |-> dsk]
        ELSE IF nwbfile_given
        THEN [nwb |-> write_neo_to_nwb(nwb, neo_reader, md, chunk_raises), disk |-> dsk]
        ELSE IF save_path = None
        THEN [nwb |-> Raise(nwb, "TypeError"), disk |-> dsk]
        ELSE LET read_mode == ReadMode(dsk, overwrite)
                 opened == [ nwb EXCEPT
                               !.devices = IF read_mode = "r+" THEN dsk.devices ELSE <<>>,
                               !.icephys_electrodes =
                                   IF read_mode = "r+" THEN dsk.icephys_electrodes ELSE <<>>,
                               !.intracellular_recordings =
                                   IF read_mode = "r+" THEN dsk.intracellular_recordings
                                   ELSE <<>>,
                               !.metadata = local ]
             IN  IF read_mode = "r+" /\ ~dsk.readable
                 THEN [nwb |-> Raise(opened, "OSError"), disk |-> dsk]
                 ELSE LET done == add_all_to_nwbfile(opened, neo_reader, local, chunk_raises)
                          left == IF IsNone(md) THEN [done EXCEPT !.metadata = md] ELSE done
                      IN  [ nwb  |-> left,
                            disk |-> IF Ok(done) THEN Written(done)
                                     ELSE IF read_mode = "w" /\ opens_eagerly THEN Truncated
                                     ELSE dsk ]

\* The readers and mappings of the calls that name a save_path.
SavePathReaders == {1, 3}
SavePathMetadata == {1, 2, 3}

\* write_neo_to_nwb called with a save_path, or with neither a save_path nor
\* an nwbfile: the caller's nwbfile object, if any, is not the one worked on.
WriteNeoToNwbSavePath ==
    /\ appends < MaxAppends
    /\ \E r \in SavePathReaders, m \in SavePathMetadata, save_path \in {None, SavePath},
          nwbfile_given, overwrite, chunk_raises, opens_eagerly \in BOOLEAN :
          /\ save_path # None \/ ~nwbfile_given
          /\ \E out \in {write_neo_to_nwb_args(Begin(MetadataOptions[m]), disk, NeoReaders[r],
                                                save_path, overwrite, nwbfile_given,
                                                MetadataOptions[m], chunk_raises,
                                                opens_eagerly)} :
                 /\ disk' = out.disk
                 /\ warnings' = out.nwb.warnings
                 /\ metadata' = out.nwb.metadata
                 /\ error' = out.nwb.error
                 /\ call' = [ op |-> IF nwbfile_given THEN "write_neo_to_nwb: both"
                                     ELSE IF save_path = None THEN "write_neo_to_nwb: neither"
                                     ELSE "write_neo_to_nwb: save_path",
                              neo_reader |-> NeoReaders[r], metadata |-> MetadataOptions[m] ]
          /\ before' = [ devices |-> devices, icephys_electrodes |-> icephys_electrodes,
                         intracellular_recordings |-> intracellular_recordings,
                         warnings |-> warnings ]
          /\ appends' = appends + 1
          /\ UNCHANGED << devices, icephys_electrodes, intracellular_recordings >>
          /\ UNCHANGED << metadata_vars, electrode_table, appended, threads, serialized >>

NwbNext ==
    \/ AddIcephysElectrode
    \/ AddIcephysRecording
    \/ AddAllToNwbfile
    \/ WriteNeoToNwb
    \/ WriteNeoToNwbSavePath

SpecNwb == NwbInit /\ [][NwbNext]_vars

\* ------------------------------------- properties of the container calls

\* A prefix of: the longer sequence starts with the shorter one, unaltered.
IsPrefix(old, new) == Len(old) <= Len(new) /\ \A k \in DOMAIN old : new[k] = old[k]

\* No two entities of a collection share a name.
Unique(entities) ==
    \A a, b \in DOMAIN entities : entities[a].name = entities[b].name => a = b

\* The entries of the call's metadata under Icephys[key], as the caller
\* passed them.
Requested(key) ==
    IF ~IsNone(call.metadata) /\ "Icephys" \in DOMAIN call.metadata
       /\ key \in DOMAIN call.metadata.Icephys
    THEN call.metadata.Icephys[key] ELSE <<>>

\* The named entries among them.
Named(key) == {k \in DOMAIN Requested(key) : "name" \in DOMAIN Requested(key)[k]}

ElectrodeStep == call.op \in {"add_icephys_electrode", "add_all_to_nwbfile", "write_neo_to_nwb"}
DeviceStep == call.op \in {"add_all_to_nwbfile", "write_neo_to_nwb"}

\* The Electrodes entries of the call that name an electrode the container
\* already held.
ElectrodeReuses ==
    {k \in Named("Electrodes") :
        ElectrodeStep /\ Requested("Electrodes")[k].name \in Names(before.icephys_electrodes)}

\* The Device entries of the call that name a device the container already held.
DeviceReuses ==
    {k \in Named("Device") :
        DeviceStep /\ Requested("Device")[k].name \in Names(before.devices)}

\* ... and ask for another description, or another device, than the stored one.
ElectrodeCollisions ==
    {k \in ElectrodeReuses :
        LET elec   == Requested("Electrodes")[k]
            stored == Entity(before.icephys_electrodes, elec.name)
        IN  \/ "description" \in DOMAIN elec /\ elec.description # stored.description
            \/ "device_name" \in DOMAIN elec /\ elec.device_name # stored.device}

DeviceCollisions ==
    {k \in DeviceReuses :
        LET dev == Requested("Device")[k]
        IN  "description" \in DOMAIN dev
            /\ dev.description # Entity(before.devices, dev.name).description}

\* The Electrodes list of the call is a list of mappings.
WellFormed == AllDicts(Requested("Electrodes"))

\* C11: resolving an entity by a name the container already holds (in the same
\* call or in a later one) yields the entity that is there: no call ends in the
\* container's duplicate-name error, no two devices and no two electrodes share
\* a name, and each name held before a call still denotes the same entity
\* after it.
C11_IdempotentIdentity ==
    /\ error # "ValueError"
    /\ Unique(devices) /\ Unique(icephys_electrodes)
    /\ \A n \in Names(before.devices) :
          n \in Names(devices) /\ Entity(devices, n) = Entity(before.devices, n)
    /\ \A n \in Names(before.icephys_electrodes) :
          /\ n \in Names(icephys_electrodes)
          /\ Entity(icephys_electrodes, n) = Entity(before.icephys_electrodes, n)

\* A second call asked for an electrode and a device the first call had made,
\* and returned.
C11_Witness ==
    /\ appends = 2 /\ error = "none"
    /\ ElectrodeReuses # {} /\ DeviceReuses # {}
    /\ \E a, b \in DOMAIN icephys_electrodes :
          a # b /\ icephys_electrodes[a].device = icephys_electrodes[b].device

\* C12: a request that names an existing electrode or device with another
\* description (or another device) is not an error: the call does not fail on
\* the name, a well-formed add_icephys_electrode call for a reader with
\* channels returns, and the existing entity keeps what it was first given.
C12_CollisionKeepsFirstSeen ==
    /\ \A k \in ElectrodeCollisions :
          LET name == Requested("Electrodes")[k].name
          IN  /\ error # "ValueError"
              /\ name \in Names(icephys_electrodes)
              /\ Entity(icephys_electrodes, name) = Entity(before.icephys_electrodes, name)
              /\ (call.op = "add_icephys_electrode" /\ WellFormed
                  /\ get_number_of_electrodes(call.neo_reader) > 0) => error = "none"
    /\ \A k \in DeviceCollisions :
          LET name == Requested("Device")[k].name
          IN  /\ error # "ValueError"
              /\ name \in Names(devices)
              /\ Entity(devices, name) = Entity(before.devices, name)

\* An add_icephys_electrode call met an electrode of the same name and another
\* description and returned; so did an add_all_to_nwbfile call with a device.
C12_Witness ==
    /\ ElectrodeCollisions # {} /\ error = "none"
    /\ \/ call.op = "add_icephys_electrode"
       \/ call.op = "add_all_to_nwbfile" /\ DeviceCollisions # {}

\* C13: every call that reuses an existing electrode whose requested
\* description differs from the stored one records a warning.
C13_CollisionWarned ==
    (ElectrodeCollisions # {} /\ error = "none") => Len(warnings) > Len(before.warnings)

\* What a call added: the entities and warnings behind those it found.
Added(old, new) == SubSeq(new, Len(old) + 1, Len(new))

NewDevices == Added(before.devices, devices)
NewElectrodes == Added(before.icephys_electrodes, icephys_electrodes)
NewRecordings == Added(before.intracellular_recordings, intracellular_recordings)
NewWarnings == Added(before.warnings, warnings)

\* add_icephys_electrode finding no device at all first makes one and warns
\* (lines 136-138); what the electrode entries add comes behind that.
NoDevicesFound == IF before.devices = <<>> THEN 1 ELSE 0

LinkedDevices == Added([k \in 1..NoDevicesFound |-> 0], NewDevices)
LinkWarnings == Added([k \in 1..NoDevicesFound |-> 0], NewWarnings)

\* The devices the electrode entries found when the call reached them.
FoundDevices == Names(devices) \ Names(LinkedDevices)

DefaultMetadata == IsNone(call.metadata) \/ call.metadata = get_nwb_metadata

\* The call recorded the warning that no device was found.
NoDevicesWarned ==
    \E k \in DOMAIN NewWarnings : NewWarnings[k].category = "no_devices"

\* C15 as stated: an append through write_neo_to_nwb or add_all_to_nwbfile with
\* default metadata into a container without devices makes the device "Device"
\* / "no description" and records the warning that no device was found.
C15_EntryPointWarns ==
    (DeviceStep /\ before.devices = <<>> /\ DefaultMetadata) =>
        (devices = << DefaultDevice >> /\ NoDevicesWarned)

\* C15, amended: through write_neo_to_nwb or add_all_to_nwbfile with default
\* metadata a container without devices gets the device "Device" / "no
\* description" and no warning, its device step running before the electrode
\* step; the warning is recorded when add_icephys_electrode itself is called
\* on a container without devices.
C15_DefaultDeviceSynthesized ==
    /\ (DeviceStep /\ before.devices = <<>> /\ DefaultMetadata) =>
          (devices = << DefaultDevice >> /\ NewWarnings = <<>>)
    /\ (call.op = "add_icephys_electrode" /\ before.devices = <<>>) =>
          (NewWarnings # <<>> /\ NewWarnings[1].category = "no_devices"
           /\ (DefaultMetadata => devices = << DefaultDevice >>))

\* write_neo_to_nwb without metadata filled a container that had no device.
C15_Witness ==
    /\ call.op = "write_neo_to_nwb" /\ IsNone(call.metadata)
    /\ before.devices = <<>> /\ error = "none"
    /\ devices = << DefaultDevice >>
    /\ icephys_electrodes # <<>> /\ intracellular_recordings # <<>>

\* C16: when add_icephys_electrode returns, the container has at least one
\* icephys electrode, whatever the reader and the metadata.
C16_AtLeastOneElectrode ==
    (call.op = "add_icephys_electrode" /\ error = "none") => Len(icephys_electrodes) >= 1

\* C17: a call whose Electrodes list is not a list of mappings is rejected
\* before anything is resolved: it fails on the list and the container's
\* devices and electrodes are those the call found.
C17_MalformedRejectedWhole ==
    (ElectrodeStep /\ ~WellFormed) =>
        /\ error = "AssertionError: Electrodes"
        /\ devices = before.devices
        /\ icephys_electrodes = before.icephys_electrodes

\* The reader of the call has command traces, and not one per segment.
CommandMismatch ==
    LET n_commands == Len(call.neo_reader.protocol[1])
    IN  n_commands # 0 /\ n_commands # get_number_of_segments(call.neo_reader, 0)

\* C18: add_icephys_recording for a reader whose command traces are not one
\* per segment (and not none) fails, and no intracellular recording of that
\* reader is in the container.
C18_CommandMismatchFailsFirst ==
    (call.op = "add_icephys_recording" /\ CommandMismatch) =>
        /\ error = "AssertionError: commands"
        /\ intracellular_recordings = before.intracellular_recordings

\* add_icephys_recording refused such a reader on a container with electrodes.
C18_Witness ==
    /\ call.op = "add_icephys_recording" /\ CommandMismatch
    /\ icephys_electrodes # <<>>
    /\ error = "AssertionError: commands"

\* The mapping add_all_to_nwbfile works on in the call.
Local ==
    IF call.op = "write_neo_to_nwb" /\ IsNone(call.metadata)
    THEN get_nwb_metadata ELSE call.metadata

\* The container after the device step and the electrode step of the call.
Committed ==
    add_icephys_electrode(
        add_devices([ devices |-> before.devices,
                      icephys_electrodes |-> before.icephys_electrodes,
                      intracellular_recordings |-> before.intracellular_recordings,
                      warnings |-> before.warnings,
                      metadata |-> Local, error |-> "none" ],
                    "Icephys", Local),
        call.neo_reader, Local)

\* C19: when add_all_to_nwbfile is aborted in its recording step, the devices
\* and electrodes the call made before stay in the container and no recording
\* of the reader is left in it.
C19_AbortLeavesNoPartialRows ==
    (DeviceStep /\ Ok(Committed) /\ error # "none") =>
        /\ devices = Committed.devices
        /\ icephys_electrodes = Committed.icephys_electrodes
        /\ NewRecordings = <<>>

\* C20: over any calls on one container the devices, the electrodes and the
\* recordings only grow: what a call found is still there after it, unaltered
\* and in place.
C20_ContainerOnlyGrows ==
    /\ IsPrefix(before.devices, devices)
    /\ IsPrefix(before.icephys_electrodes, icephys_electrodes)
    /\ IsPrefix(before.intracellular_recordings, intracellular_recordings)

\* A second add_all_to_nwbfile added a device, an electrode and a recording
\* to a container that held some of each.
C20_Witness ==
    /\ call.op = "add_all_to_nwbfile" /\ appends = 2
    /\ before.devices # <<>> /\ before.icephys_electrodes # <<>>
    /\ before.intracellular_recordings # <<>>
    /\ NewDevices # <<>> /\ NewElectrodes # <<>> /\ NewRecordings # <<>>

\* --------------------------------------------- write_neo_to_nwb arguments

\* C21: write_neo_to_nwb takes a save_path or an nwbfile object, not both: a
\* call with both fails on that, and neither the nwbfile, nor the file, nor
\* the warnings, nor the caller's metadata change in it; a call with neither
\* does not return normally.
C21_SavePathXorNwbfile ==
    [][ /\ call'.op = "write_neo_to_nwb: both" =>
              /\ error' = "AssertionError: save_path or nwbfile"
              /\ disk' = disk
              /\ devices' = devices
              /\ icephys_electrodes' = icephys_electrodes
              /\ intracellular_recordings' = intracellular_recordings
              /\ warnings' = warnings
              /\ metadata' = call'.metadata
        /\ call'.op = "write_neo_to_nwb: neither" =>
              /\ error' # "none"
              /\ disk' = disk
              /\ devices' = devices ]_vars

\* A call with both was refused on an nwbfile that had been filled.
C21_Witness ==
    /\ call.op = "write_neo_to_nwb: both"
    /\ error = "AssertionError: save_path or nwbfile"
    /\ devices # <<>> /\ intracellular_recordings # <<>>

\* ------------------------------------------------- the electrode table

\* Largest number of appends to one electrode table.
MaxBatches == 3

\* Column values: numbers, text, and not-a-number.
Num(n) == [num |-> n]
Text(t) == [text |-> t]
NaN == [nan |-> TRUE]

TypeOf(value) == IF "text" \in DOMAIN value THEN "text" ELSE "numeric"

\* The value a row has in a column of the given type that it was not given.
Sentinel_nan(type) == NaN
Sentinel(type) == IF type = "text" THEN Text("") ELSE NaN

\* A recording of n channels with ids first, first + 1, ...: every channel has
\* prop1, brain_area and its group; every other channel, the first included,
\* has prop2 (its id) and prop3 (its id as text); with prop2 cleared, every
\* channel has prop_new (its id) instead.
Recording(first, n, area, cleared) ==
    [ k \in 1..n |->
        LET chan_id == first + k - 1
            props   == {"prop1", "brain_area"}
                       \cup (IF (k - 1) % 2 = 0 THEN {"prop3"} ELSE {})
                       \cup (IF (k - 1) % 2 = 0 /\ ~cleared THEN {"prop2"} ELSE {})
                       \cup (IF cleared THEN {"prop_new"} ELSE {})
        IN  [ channel_id |-> chan_id,
              group_name |-> area,
              properties |->
                 [ p \in props |->
                     CASE p = "prop1" -> Text("10Hz")
                       [] p = "brain_area" -> Text(area)
                       [] p = "prop3" -> Text(ToString(chan_id))
                       [] OTHER -> Num(chan_id) ] ] ]

\* The recordings appended: RX, RX2 with its channels renamed behind RX's, RX2
\* with prop2 cleared and prop_new set, a recording without channels, and one
\* whose prop2 is text.
Recordings_appended ==
    << Recording(0, 3, "PMd", FALSE),
       Recording(3, 2, "M1", FALSE),
       Recording(3, 2, "M1", TRUE),
       Recording(0, 0, "PMd", FALSE),
       << [ channel_id |-> 5, group_name |-> "M1",
            properties |-> [prop1 |-> Text("10Hz"), prop2 |-> Text("five")] ] >> >>

\* The column a channel property is stored in.
ColumnOf(property) == IF property = "brain_area" THEN "location" ELSE property

\* The columns a channel supplies, and its value in one of them.
Supplied(channel) == {ColumnOf(p) : p \in DOMAIN channel.properties}
ValueOf(channel, c) ==
    channel.properties[CHOOSE p \in DOMAIN channel.properties : ColumnOf(p) = c]

\* The columns of a batch, with the type of the values given for each.
BatchColumns(batch) == UNION {Supplied(batch[k]) : k \in DOMAIN batch}
BatchTypes(batch, c) ==
    {TypeOf(ValueOf(batch[k], c)) : k \in {j \in DOMAIN batch : c \in Supplied(batch[j])}}

\* A column declared with two types, in the batch or against the table.
TypeConflict(table, batch) ==
    \E c \in BatchColumns(batch) :
        \/ Cardinality(BatchTypes(batch, c)) > 1
        \/ c \in DOMAIN table.colnames /\ table.colnames[c] \notin BatchTypes(batch, c)

BackFill_rewrite(table, batch) ==
    [ colnames |-> [ c \in DOMAIN table.colnames \cup BatchColumns(batch) |->
                       IF c \in DOMAIN table.colnames THEN table.colnames[c]
                       ELSE CHOOSE t \in BatchTypes(batch, c) : TRUE ],
      rows |-> [ k \in DOMAIN table.rows |->
                   [ table.rows[k] EXCEPT !.values =
                       [ c \in DOMAIN table.colnames \cup BatchColumns(batch) |->
                           Sentinel(IF c \in DOMAIN table.colnames THEN table.colnames[c]
                                    ELSE CHOOSE t \in BatchTypes(batch, c) : TRUE) ] ] ] ]
\* ColumnSchemaMerger: every column new to the table is added to the schema
\* and every row already written gets the sentinel in it, and nothing else.
BackFill(table, batch) ==
    LET merged == [ c \in DOMAIN table.colnames \cup BatchColumns(batch) |->
                      IF c \in DOMAIN table.colnames THEN table.colnames[c]
                      ELSE CHOOSE t \in BatchTypes(batch, c) : TRUE ]
    IN  [ colnames |-> merged,
          rows |-> [ k \in DOMAIN table.rows |->
                       [ table.rows[k] EXCEPT !.values =
                           [ c \in DOMAIN merged |->
                               IF c \in DOMAIN table.colnames THEN table.rows[k].values[c]
                               ELSE Sentinel(merged[c]) ] ] ] ]

NextId_restart(table, already) == already
\* The id of the next row: the number of rows in the table ("already" counts
\* the rows the call has appended so far).
NextId(table, already) == Len(table.rows)

\* ElectrodeTableAppender: one row for the channel, with the next id, the
\* group of the channel, the values supplied and the sentinel elsewhere.
AppendRow(table, channel, already) ==
    [ table EXCEPT !.rows =
        Append(@, [ id         |-> NextId(table, already),
                    channel    |-> channel.channel_id,
                    group_name |-> channel.group_name,
                    values     |-> [ c \in DOMAIN table.colnames |->
                                       IF c \in Supplied(channel) THEN ValueOf(channel, c)
                                       ELSE Sentinel(table.colnames[c]) ] ]) ]

RECURSIVE AppendRows(_, _, _)
AppendRows(table, batch, k) ==
    IF k > Len(batch) THEN table
    ELSE AppendRows(AppendRow(table, batch[k], k - 1), batch, k + 1)

\* One append call to the electrode table. A type conflict is fatal and leaves
\* the table as it was.
add_electrodes(table, batch) ==
    IF TypeConflict(table, batch) THEN table
    ELSE AppendRows(BackFill(table, batch), batch, 1)

\* write_recording(recording=, nwbfile=, metadata=): the electrode table part.
AppendElectrodes ==
    /\ Len(appended.sizes) < MaxBatches
    /\ \E b \in DOMAIN Recordings_appended :
          LET batch == Recordings_appended[b]
              table == add_electrodes(electrode_table, batch)
              new   == DOMAIN table.colnames \ DOMAIN electrode_table.colnames
          IN  /\ electrode_table' = table
              /\ appended' =
                    [ before     |-> electrode_table,
                      batch      |-> b,
                      error      |-> IF TypeConflict(electrode_table, batch)
                                     THEN "type conflict" ELSE "none",
                      first_ids  |-> Append(appended.first_ids,
                                       IF Len(table.rows) > Len(electrode_table.rows)
                                       THEN table.rows[Len(electrode_table.rows) + 1].id
                                       ELSE Len(electrode_table.rows)),
                      sizes      |-> Append(appended.sizes,
                                            Len(table.rows) - Len(electrode_table.rows)),
                      introduced |-> [ c \in DOMAIN table.colnames |->
                                         IF c \in new THEN Len(electrode_table.rows)
                                         ELSE appended.introduced[c] ] ]
    /\ UNCHANGED << metadata_vars, devices, icephys_electrodes, intracellular_recordings,
                    warnings, metadata, error, call, before, appends, disk, threads,
                    serialized >>

TableNext == AppendElectrodes

SpecElectrodes == NwbInit /\ [][TableNext]_vars

\* ------------------------------------ properties of the electrode table

RECURSIVE SumSizes(_, _)
\* k_1 + ... + k_n
SumSizes(sizes, n) == IF n = 0 THEN 0 ELSE sizes[n] + SumSizes(sizes, n - 1)

\* The batch of the last append, and the rows it found.
LastBatch == IF appended.batch = 0 THEN <<>> ELSE Recordings_appended[appended.batch]
OldRows == appended.before.rows
Rows == electrode_table.rows
Columns == electrode_table.colnames

\* What the claims call the sentinel of a column: the empty string in a text
\* column, not-a-number in a numeric one.
Missing(c) == IF Columns[c] = "text" THEN [text |-> ""] ELSE [nan |-> TRUE]

\* C22: every row written before a column was introduced has the sentinel of
\* the column's type in it (not-a-number, or the empty text); an append leaves
\* the rows it found in place, with their id, channel and group and with their
\* value in every column the table already had.
C22_BackFillOnlyNewColumn ==
    /\ \A c \in DOMAIN Columns : \A k \in 1..appended.introduced[c] :
          Rows[k].values[c] = Missing(c)
    /\ Len(OldRows) <= Len(Rows)
    /\ \A k \in DOMAIN OldRows :
          /\ Rows[k].id = OldRows[k].id
          /\ Rows[k].channel = OldRows[k].channel
          /\ Rows[k].group_name = OldRows[k].group_name
          /\ \A c \in DOMAIN appended.before.colnames :
                Rows[k].values[c] = OldRows[k].values[c]

\* An append introduced a numeric and a text column into a table that had a
\* row with values of its own.
C22_Witness ==
    /\ OldRows # <<>>
    /\ \E c, d \in DOMAIN Columns \ DOMAIN appended.before.colnames :
          Columns[c] = "numeric" /\ Columns[d] = "text"
    /\ \E c \in DOMAIN appended.before.colnames :
          OldRows[1].values[c] \notin {NaN, Text("")}

C24_NewRowsGetSentinel ==
    appended.error = "none" =>
        \A j \in DOMAIN LastBatch : \A c \in DOMAIN Columns :
            Rows[Len(OldRows) + j].values[c] =
                IF c \in Supplied(LastBatch[j]) THEN ValueOf(LastBatch[j], c)
                ELSE Missing(c)

\* A batch without a numeric column of the table, and with a text column set
\* on only some of its channels, was appended.
C24_Witness ==
    /\ appended.error = "none" /\ LastBatch # <<>>
    /\ \E c \in DOMAIN appended.before.colnames \ BatchColumns(LastBatch) :
          Columns[c] = "numeric" /\ Rows[Len(Rows)].values[c] = NaN
    /\ \E c \in BatchColumns(LastBatch) : \E j \in DOMAIN LastBatch :
          /\ c \notin Supplied(LastBatch[j])
          /\ Rows[Len(OldRows) + j].values[c] = Text("")

\* ------------------------------------ more properties of the container

\* C25: every icephys electrode of the container is linked to a device that
\* the container holds under that name, and no call fails looking the device
\* of an electrode up.
C25_ReferentialIntegrity ==
    /\ \A k \in DOMAIN icephys_electrodes : icephys_electrodes[k].device \in Names(devices)
    /\ error # "KeyError"

\* Two calls left electrodes on a device made for an electrode and on another
\* device.
C25_Witness ==
    /\ appends = 2 /\ ElectrodeStep /\ error = "none"
    /\ \E k \in DOMAIN warnings : warnings[k].category = "device_autogenerated"
    /\ \E a, b \in DOMAIN icephys_electrodes :
          /\ icephys_electrodes[a].device # icephys_electrodes[b].device
          /\ Entity(devices, icephys_electrodes[a].device).description = None

\* --------------------------- add_icephys_electrode called by two callers

\* Largest number of calls of one caller.
MaxRaceCalls == 2

Callers == {1, 2}
Other(t) == 3 - t

\* The Electrodes entry of a call: one electrode, by name, on a named device.
RaceNames == {"elec0", "elec1"}
RaceDevices == {"Device", "Rig"}

\* The container the callers share.
Shared ==
    [ devices |-> devices, icephys_electrodes |-> icephys_electrodes,
      intracellular_recordings |-> intracellular_recordings,
      warnings |-> warnings, metadata |-> metadata, error |-> "none" ]

Share(nwb) ==
    /\ devices' = nwb.devices
    /\ icephys_electrodes' = nwb.icephys_electrodes
    /\ warnings' = nwb.warnings
    /\ UNCHANGED << metadata_vars, intracellular_recordings, metadata, error, call, before,
                    appends, disk, electrode_table, appended, serialized >>

\* Two callers on a container nothing was added to, serialized or not.
RaceInit ==
    /\ readers_list = << >>
    /\ metadata_file_path = None
    /\ pc = "idle"
    /\ calls = MaxCalls
    /\ metafile_sessions = <<>>
    /\ first_session_time = [day |-> 1, second |-> 0]
    /\ Recordings = <<>>
    /\ i = 0 /\ ii = 0 /\ iii = 0
    /\ ir = 0
    /\ emitted = <<>>
    /\ returned = <<>>
    /\ devices = <<>>
    /\ icephys_electrodes = <<>>
    /\ intracellular_recordings = <<>>
    /\ warnings = <<>>
    /\ metadata = PyNone
    /\ error = "none"
    /\ call = NoCall
    /\ before = EmptyNwbfile
    /\ appends = 0
    /\ disk = NoFile
    /\ electrode_table = EmptyTable
    /\ appended = NoAppend
    /\ threads = << Idle, Idle >>
    /\ serialized \in BOOLEAN

\* Lines 136-160: the call begins; a container without devices gets one.
RaceCall(t) ==
    /\ threads[t].pc = "idle"
    /\ threads[t].calls < MaxRaceCalls
    /\ serialized => threads[Other(t)].pc = "idle"
    /\ \E name \in RaceNames, device_name \in RaceDevices :
          LET md  == [Icephys |-> [Electrodes |->
                        << [name |-> name, device_name |-> device_name] >>]]
              nwb == IF Len(devices) = 0
                     THEN add_devices(Warn(Shared, "no_devices", ""), "Ecephys", md)
                     ELSE Shared
          IN  /\ threads' = [threads EXCEPT ![t] =
                               [ pc |-> "check", name |-> name, device_name |-> device_name,
                                 error |-> "none", calls |-> @.calls + 1 ]]
              /\ Share(nwb)

\* Line 164: is the name in nwbfile.icephys_electrodes?
RaceCheck(t) ==
    /\ threads[t].pc = "check"
    /\ threads' = [threads EXCEPT ![t].pc =
                      IF ElectrodeAbsent(threads[t].name, Shared) THEN "link" ELSE "idle"]
    /\ Share(Shared)

\* Lines 165-172: the device of the electrode, made if it is not there.
RaceLink(t) ==
    /\ threads[t].pc = "link"
    /\ threads' = [threads EXCEPT ![t].pc = "create"]
    /\ Share(LinkDevice(Shared, threads[t].device_name))

\* Lines 173-178: nwbfile.create_icephys_electrode.
RaceCreate(t) ==
    /\ threads[t].pc = "create"
    /\ LET made == create_icephys_electrode(Shared, threads[t].name, "no description",
                                            threads[t].device_name)
       IN  /\ threads' = [threads EXCEPT ![t].pc = "idle", ![t].error = made.error]
           /\ Share(made)

RaceNext ==
    \E t \in Callers :
        \/ RaceCall(t)
        \/ RaceCheck(t)
        \/ RaceLink(t)
        \/ RaceCreate(t)

SpecRace == RaceInit /\ [][RaceNext]_vars

\* C26: with the callers serialized, no caller goes on to create an electrode
\* whose name the container holds, and none fails on a duplicate name; a caller
\* that does is one of two whose steps interleaved.
C26_SerializedNoSecondCreation ==
    /\ serialized =>
          \A t \in Callers :
             /\ threads[t].error = "none"
             /\ threads[t].pc \in {"link", "create"} =>
                   threads[t].name \notin Names(icephys_electrodes)
    /\ Unique(icephys_electrodes)

\* Not serialized, both callers passed the membership check for the same name
\* and stand before the create step.
C26_Witness ==
    /\ ~serialized
    /\ threads[1].pc = "create" /\ threads[2].pc = "create"
    /\ threads[1].name = threads[2].name
    /\ threads[1].name \notin Names(icephys_electrodes)

\* ------------------------------------ properties of add_icephys_recording

\* The electrodes add_icephys_recording found, and the counts of its reader.
E == Len(before.icephys_electrodes)
NSegments == get_number_of_segments(call.neo_reader, 0)
NChannels == get_number_of_electrodes(call.neo_reader)
NCommands == Len(call.neo_reader.protocol[1])

\* C27: an add_icephys_recording that returns has appended one recording per
\* segment and per electrode of the container, segment by segment and, in a
\* segment, in the order of the electrodes; the number of electrodes is the
\* container's, so the recordings are as many as the segments x channels
\* entries get_metadata makes for the reader only if the container has as
\* many electrodes as the reader has channels.
C27_RecordingsPerSegmentAndElectrode ==
    (call.op = "add_icephys_recording" /\ error = "none") =>
        /\ NewRecordings =
              [ k \in 1..(NSegments * E) |->
                  [ electrode |-> icephys_electrodes[((k - 1) % E) + 1].name,
                    segment   |-> (k - 1) \div E,
                    channel   |-> (k - 1) % E ] ]
        /\ NSegments > 0 => (Len(NewRecordings) = NSegments * NChannels <=> E = NChannels)

\* A reader with two segments and two channels was recorded into a container
\* with one electrode: two recordings, where get_metadata has four entries.
C27_Witness ==
    /\ call.op = "add_icephys_recording" /\ error = "none"
    /\ E = 1 /\ NChannels = 2 /\ NSegments = 2
    /\ Len(NewRecordings) = 2

\* C28: for a reader without command traces, with a segment, on a container
\* with an electrode, add_icephys_recording fails on the first stimulus and
\* the intracellular recordings are those it found.
C28_NoCommandsFails ==
    (call.op = "add_icephys_recording" /\ NCommands = 0 /\ NSegments >= 1 /\ E >= 1) =>
        /\ error = "IndexError"
        /\ intracellular_recordings = before.intracellular_recordings

\* Such a call, on a container that had recordings.
C28_Witness ==
    /\ call.op = "add_icephys_recording" /\ NCommands = 0 /\ NSegments >= 1 /\ E >= 1
    /\ error = "IndexError"
    /\ before.intracellular_recordings # <<>>

\* ------------------------------------ properties of add_icephys_electrode

\* The default list of add_icephys_electrode for the reader of the call.
DefaultList ==
    [ k \in 1..NChannels |->
        [ name |-> ElectrodeName(k - 1), description |-> "no description",
          device_name |-> devices[1].name ] ]

\* The names the Electrodes entries of the call give.
RequestedNames == {Requested("Electrodes")[k].name : k \in Named("Electrodes")}

\* C29: add_icephys_electrode called with a mapping without Electrodes (or
\* with an empty list) leaves the default list, one entry per channel of its
\* reader, in the caller's mapping; called with a mapping that has a list, it
\* makes electrodes for the entries of the list only, however many channels
\* its reader has.
C29_DefaultsWrittenIntoMetadata ==
    /\ (call.op = "add_icephys_electrode" /\ ~IsNone(call.metadata)
        /\ Requested("Electrodes") = <<>> /\ error = "none") =>
          /\ "Icephys" \in DOMAIN metadata
          /\ "Electrodes" \in DOMAIN metadata.Icephys
          /\ metadata.Icephys.Electrodes = DefaultList
    /\ (call.op = "add_icephys_electrode" /\ Requested("Electrodes") # <<>>) =>
          \A k \in DOMAIN NewElectrodes :
              NewElectrodes[k].name \in RequestedNames \cup {ElectrodeName(0)}

\* The mapping came back from a call with a one-channel reader and went into a
\* call with a two-channel reader: no electrode for the second channel.
C29_Witness ==
    /\ appends = 2 /\ call.op = "add_icephys_electrode" /\ error = "none"
    /\ RequestedNames = {ElectrodeName(0)}
    /\ Len(Requested("Electrodes")) = 1
    /\ NChannels = 2
    /\ ElectrodeName(1) \notin Names(icephys_electrodes)

\* The Electrodes entries of the call without a name.
Nameless == DOMAIN Requested("Electrodes") \ Named("Electrodes")

\* The electrodes the call made for them.
FromNameless ==
    {k \in DOMAIN NewElectrodes : NewElectrodes[k].name \notin RequestedNames}

\* C30: the Electrodes entries without a name all stand for
\* icephys_electrode_0: a call makes at most one electrode for them, of that
\* name, and none if the container has an electrode of that name; when the
\* call returns the container has one.
C30_NamelessIsFirstDefault ==
    (ElectrodeStep /\ WellFormed /\ Nameless # {}) =>
        /\ \A k \in FromNameless : NewElectrodes[k].name = ElectrodeName(0)
        /\ Cardinality(FromNameless) <= 1
        /\ ElectrodeName(0) \in Names(before.icephys_electrodes) => FromNameless = {}
        /\ (call.op = "add_icephys_electrode" /\ error = "none") =>
              ElectrodeName(0) \in Names(icephys_electrodes)

\* Two nameless entries and a two-channel reader: one electrode made.
C30_Witness ==
    /\ call.op = "add_icephys_electrode" /\ error = "none"
    /\ Cardinality(Nameless) = 2 /\ NChannels = 2
    /\ Cardinality(FromNameless) = 1

====
